---- MODULE Spec2Model ----
(***************************************************************************)
(* espeakNG-rs: the process-wide Speaker singleton (OnceCell<Mutex<..>>),  *)
(* the calls it makes into the native engine, the synthesis callback       *)
(* bridge and the diphone (mbrola) phoneme extraction, as a state machine  *)
(* of a few threads calling the public API of src/src/lib.rs (Spec), and   *)
(* the crate's value-level functions applied on their own: handle_error,   *)
(* get_parameter / set_parameter, synthesize_to_file (SpecFn).             *)
(***************************************************************************)
EXTENDS Integers, Sequences, FiniteSets, TLC

\* ------------------------------------------------------------------ bounds

\* How many times the initialisation closure may be started.
MaxAttempts == 2
\* Size of the process's descriptor table (RLIMIT_NOFILE, less stdio).
MaxFds == 2
\* Longest sequence of sample chunks the engine delivers for one synthesis.
MaxChunks == 2
\* The native set-voice calls of one set_voice_raw are counted modulo this.
SpinWrap == 2
\* The largest value set_parameter is called with.
MaxParamValue == 2
\* Longest sample sequence written by synthesize_to_file.
MaxSamples == 2
\* How many languages a voice's packed list holds at most.
MaxLangs == 2
\* How many events the engine reports with one chunk of samples at most.
MaxEvents == 2
\* How many event-sized entries of readable memory lie behind the array.
MaxBehind == 2
\* How many clauses the text given to text_to_phonemes has at most.
MaxClauses == 2

\* The threads calling the API: two, so that every pair of calls interleaves.
Threads == {1, 2}

\* ------------------------------------------------------- program constants

\* enum ESpeakNgError, #[repr(u32)]: each variant's status value
\* (0x1000_01FF, 0x1000_02FF, ..., 0x1000_10FF).
ESpeakNgError ==
    [
     CompileError             |-> 268435967,
     VersionMismatch          |-> 268436223,
     FifoBufferFull           |-> 268436479,
     NotInitialized           |-> 268436735,
     AudioError               |-> 268436991,
     VoiceNotFound            |-> 268437247,
     MbrolaNotFound           |-> 268437503,
     MbrolaVoiceNotFound      |-> 268437759,
     EventBufferFull          |-> 268438015,
     NotSupported             |-> 268438271,
     UnsupportedPhonemeFormat |-> 268438527,
     NoSpectFrames            |-> 268438783,
     EmptyPhonemeManifest     |-> 268439039,
     SpeechStopped            |-> 268439295,
     UnknownPhonemeFeature    |-> 268439551,
     UnknownTextEncoding      |-> 268439807
    ]

\* ESpeakNgError::VoiceNotFound as u32
ENS_VOICE_NOT_FOUND == ESpeakNgError.VoiceNotFound

\* Speaker::DEFAULT_VOICE, "gmw/en" (a string is a sequence of characters)
DEFAULT_VOICE == <<"g", "m", "w", "/", "e", "n">>
\* The voice the tests select for diphone mode, "mb/mb-en1"
MBROLA_VOICE == <<"m", "b", "/", "m", "b", "-", "e", "n", "1">>
\* The engine has no current voice.
NoVoice == <<>>

\* The voice_path arguments of initialise: None or Some(path).
Paths == {"None", "/a", "/b"}

\* What a native call that returns a status may return.
\* 0, a status ESpeakNgError knows, and one it does not know.
NativeStatuses == {0, ENS_VOICE_NOT_FOUND, 1}

\* errno after fdopen failed (Linux): on a bad descriptor, out of memory.
EBADF == 9
ENOMEM == 12

\* What errno::errno() may yield after a native engine call failed: the
\* engine leaves errno as it was or as its own libc calls set it.
Errnos == {0, ENOMEM}

\* ---------------------------------------------------------------- results

\* Result<T, Error> as a record: k the variant, e the Error variant, v the
\* payload (a handle, a status code, 1 for Some / 0 for None).
NoRes == [k |-> "None", e |-> "", v |-> 0]
Ok(v) == [k |-> "Ok", e |-> "", v |-> v]
Err(e, v) == [k |-> "Err", e |-> e, v |-> v]

\* ESpeakNgError::from_repr (strum FromRepr): the variant with that status
\* value, or "None".
from_repr(code) ==
    IF \E n \in DOMAIN ESpeakNgError : ESpeakNgError[n] = code
    THEN CHOOSE n \in DOMAIN ESpeakNgError : ESpeakNgError[n] = code
    ELSE "None"

\* A faulty handle_error: a status ESpeakNgError does not know is no error.
handle_error_UnknownIsOk(ret_code, e) ==
    IF ret_code = 0 THEN Ok(0)
    ELSE IF from_repr(ret_code) # "None"
    THEN Err("ESpeakNg", ESpeakNgError[from_repr(ret_code)])
    ELSE Ok(0)

\* handle_error: 0 is Ok(()); a status with a variant is Error::ESpeakNg of
\* that variant (v: the variant as u32); anything else is Error::OtherC of
\* errno::errno(), e being the calling thread's errno.
handle_error(ret_code, e) ==
    IF ret_code = 0 THEN Ok(0)
    ELSE IF from_repr(ret_code) # "None"
    THEN Err("ESpeakNg", ESpeakNgError[from_repr(ret_code)])
    ELSE Err("OtherC", e)

\* The terminator of a C string.
NUL == "NUL"

\* utils::null_term: the bytes of s followed by a 0.
null_term(s) == Append(s, NUL)

\* CStr::from_ptr: the bytes before the first 0.
CStr_from_ptr(bytes) ==
    LET n == CHOOSE i \in 1..Len(bytes) :
                 bytes[i] = NUL /\ \A j \in 1..(i - 1) : bytes[j] # NUL
    IN  SubSeq(bytes, 1, n - 1)

\* String::from_cptr: CStr::from_ptr(ptr).to_string_lossy().into_owned();
\* the bytes here are ASCII, which the lossy decoding keeps.
from_cptr(bytes) == CStr_from_ptr(bytes)

\* filename.starts_with("mb/")
IsMbrola(name) == Len(name) >= 3 /\ SubSeq(name, 1, 3) = <<"m", "b", "/">>

VARIABLES
    \* the OnceCell
    SPEAKER,      \* 0: empty; n > 0: holds the n-th Speaker constructed
    initing,      \* the thread running the initialisation closure, or 0
    constructed,  \* how many Speaker values were constructed
    attempts,     \* how many times the closure was started
    \* the Mutex<Speaker>
    lock,         \* the thread holding the guard, or 0
    \* the threads
    pc, op, arg, res, h, st, filename, waited, result, caller_fd,
    raw_file_fd, dup_fd,
    sv_calls,     \* how many native set-voice calls the running
                  \* set_voice_raw has made, modulo SpinWrap
    voice_path_exists,  \* what voice_path.exists() gave the running
                  \* set_voice_raw ("unchecked": not asked)
    text,         \* the clauses of the text given to text_to_phonemes
    output,       \* the clauses whose phonemes text_to_phonemes_standard got
    \* the native engine's global state
    callbackSet, enginePath, coreInit, outInit, curVoice, traceTarget,
    terminated, pending, cbActive,
    \* the process: descriptors, the C stream, the synthesis call's stack
    openFds, cfile, udAlive, udVal, audio_buffer, bufAlive, aborted,
    cbFailed,     \* "no", or how a synth_callback invocation failed
    delivered,    \* the sample chunks the engine handed to synth_callback
                  \* during the current call, in order
    \* one function of the crate applied on its own
    fn,           \* which function was applied ("none": none yet)
    errno,        \* the calling thread's errno at that time
    ret_code,     \* handle_error's argument
    fn_res,       \* the Result it returned
    param_cur,    \* the engine's current value of each parameter
    param, new_value, relative,   \* set_parameter's arguments
    reads,        \* what the get_parameter calls made since returned
    audio_data_i16,   \* the samples synthesize returned to synthesize_to_file
    file,         \* the bytes synthesize_to_file wrote to its file
    lang_pairs,   \* the (priority, name) pairs of the voice record whose
                  \* languages field parse_lang_array was applied to
    languages,    \* what parse_lang_array did: the Vec it returned or the
                  \* panic, and the last byte it read
    wav, sample_count, events,   \* synth_callback's arguments (events: the
                  \* types of the array's entries, the marker included)
    behind,       \* the types found in the memory behind the events array
    terminate_event   \* how synth_callback's scan of events ended

cellVars == <<SPEAKER, initing, constructed, attempts>>
phoLocals == <<text, output>>
threadVars == <<pc, op, arg, res, h, st, filename, waited, result, caller_fd,
               raw_file_fd, dup_fd, sv_calls, voice_path_exists, phoLocals>>
engineVars == <<callbackSet, enginePath, coreInit, outInit, curVoice,
                traceTarget, terminated, pending, cbActive>>
procVars == <<openFds, cfile, udAlive, udVal, audio_buffer, bufAlive, aborted,
             cbFailed, delivered>>
\* the locals of the operations made under the lock
opLocals == <<op, filename, waited, result, caller_fd, raw_file_fd, dup_fd,
             sv_calls, voice_path_exists, phoLocals>>
parseVars == <<lang_pairs, languages>>
scanVars == <<wav, sample_count, events, behind, terminate_event>>
fnVars == <<fn, errno, ret_code, fn_res, param_cur, param, new_value, relative,
           reads, audio_data_i16, file, parseVars, scanVars>>
\* the variables of the Speaker singleton, its callers and the engine
apiVars == <<cellVars, lock, threadVars, engineVars, procVars>>
vars == <<apiVars, fnVars>>

\* The process before its first call into the crate.
ApiInit ==
    /\ SPEAKER = 0 /\ initing = 0 /\ constructed = 0 /\ attempts = 0
    /\ lock = 0
    /\ pc = [t \in Threads |-> "idle"]
    /\ op = [t \in Threads |-> ""]
    /\ arg = [t \in Threads |-> ""]
    /\ res = [t \in Threads |-> NoRes]
    /\ h = [t \in Threads |-> 0]
    /\ st = [t \in Threads |-> 0]
    /\ filename = [t \in Threads |-> NoVoice]
    /\ waited = [t \in Threads |-> FALSE]
    /\ result = [t \in Threads |-> NoRes]
    /\ caller_fd = [t \in Threads |-> 0]
    /\ raw_file_fd = [t \in Threads |-> 0]
    /\ dup_fd = [t \in Threads |-> 0]
    /\ sv_calls = [t \in Threads |-> 0]
    /\ voice_path_exists = [t \in Threads |-> "unchecked"]
    /\ text = [t \in Threads |-> <<>>]
    /\ output = [t \in Threads |-> <<>>]
    /\ callbackSet = FALSE /\ enginePath = "" /\ coreInit = FALSE
    /\ outInit = FALSE /\ curVoice = NoVoice /\ traceTarget = "default"
    /\ terminated = 0 /\ pending = <<>> /\ cbActive = FALSE
    /\ openFds = {} /\ cfile = [state |-> "none", fd |-> 0]
    /\ udAlive = FALSE /\ udVal = "None" /\ audio_buffer = <<>>
    /\ bufAlive = FALSE /\ aborted = FALSE /\ cbFailed = "no"
    /\ delivered = <<>>

\* enum Parameter, #[repr(u32)]: each variant's native id.
Parameter ==
    [Rate |-> 1, Volume |-> 2, Pitch |-> 3, Range |-> 4, Punctuation |-> 5,
     Capitals |-> 6, Wordgap |-> 7]

\* The engine's default value of each parameter, by native id.
param_defaults ==
    [i \in 1..7 |-> CASE i = 1 -> 175 [] i = 2 -> 100 [] i = 3 -> 50
                      [] i = 4 -> 50 [] OTHER -> 0]

\* No function has been applied on its own; the engine is fresh.
FnInit ==
    /\ fn = "none" /\ ret_code = 0 /\ fn_res = NoRes
    /\ param_cur = param_defaults
    /\ param = "" /\ new_value = 0 /\ relative = FALSE /\ reads = <<>>
    /\ audio_data_i16 = <<>> /\ file = <<>>
    /\ lang_pairs = <<>>
    /\ languages = [panicked |-> FALSE, vec |-> <<>>, last_read |-> 0]
    /\ wav = "null" /\ sample_count = 0 /\ events = <<>> /\ behind = <<>>
    /\ terminate_event = [outcome |-> "none", last_read |-> 0]

Init == ApiInit /\ FnInit /\ errno = 0

\* ---------------------------------------------------------------- helpers

Goto(t, l) == pc' = [pc EXCEPT ![t] = l]
SetRes(t, r) == res' = [res EXCEPT ![t] = r]
SetSt(t, s) == st' = [st EXCEPT ![t] = s]

\* ------------------------------------------------- initialise() and get()

\* A thread calls initialise(voice_path).
InitialiseCall(t, p) ==
    /\ pc[t] = "idle"
    /\ Goto(t, "init_enter")
    /\ arg' = [arg EXCEPT ![t] = p]
    /\ SetRes(t, NoRes)
    /\ UNCHANGED <<cellVars, lock, h, fnVars, st, opLocals, engineVars,
                   procVars>>

\* A faulty InitialiseFast: a second call is refused with Error::AlreadyInit.
InitialiseFast_AlreadyInit(t) ==
    /\ pc[t] = "init_enter"
    /\ SPEAKER # 0
    /\ SetRes(t, Err("AlreadyInit", 0))
    /\ Goto(t, "init_ret")
    /\ UNCHANGED <<cellVars, lock, arg, fnVars, h, st, opLocals, engineVars,
                   procVars>>

\* get_or_try_init on a filled cell: the existing handle, closure not run.
InitialiseFast(t) ==
    /\ pc[t] = "init_enter"
    /\ SPEAKER # 0
    /\ SetRes(t, Ok(SPEAKER))
    /\ Goto(t, "init_ret")
    /\ UNCHANGED <<cellVars, lock, arg, fnVars, h, st, opLocals, engineVars,
                   procVars>>

\* get_or_try_init on an empty cell that no thread is initialising: this
\* thread runs the closure, the others block until it ends.
\* Speaker::initialise starts with espeak_SetSynthCallback.
InitialiseBegin(t) ==
    /\ pc[t] = "init_enter"
    /\ SPEAKER = 0 /\ initing = 0
    /\ attempts < MaxAttempts
    /\ initing' = t
    /\ attempts' = attempts + 1
    /\ Goto(t, "in_SetSynthCallback")
    /\ UNCHANGED <<SPEAKER, constructed, lock, arg, fnVars, res, h, st,
                   opLocals, engineVars, procVars>>

\* espeak_SetSynthCallback(Some(synth_callback)) returns.
SetSynthCallbackReturn(t) ==
    /\ pc[t] = "in_SetSynthCallback"
    /\ callbackSet' = TRUE
    /\ Goto(t, "in_InitializePath")
    /\ UNCHANGED <<cellVars, lock, arg, fnVars, res, h, st, opLocals,
                   enginePath, coreInit, outInit, curVoice, traceTarget,
                   terminated, pending, cbActive, procVars>>

\* espeak_ng_InitializePath(path or null) returns.
InitializePathReturn(t) ==
    /\ pc[t] = "in_InitializePath"
    /\ enginePath' = arg[t]
    /\ Goto(t, "in_Initialize")
    /\ UNCHANGED <<cellVars, lock, arg, fnVars, res, h, st, opLocals,
                   callbackSet, coreInit, outInit, curVoice, traceTarget,
                   terminated, pending, cbActive, procVars>>

\* A faulty InitialiseFail: the cell is filled although the closure failed.
InitialiseFail_Publishes(t, s) ==
    /\ initing' = 0
    /\ SPEAKER' = constructed + 1
    /\ SetSt(t, s)
    /\ \E e \in Errnos : SetRes(t, handle_error(s, e))
    /\ Goto(t, "init_ret")
    /\ UNCHANGED <<constructed, attempts>>

\* The closure returns Err: the cell stays empty and the error is the
\* result of initialise (get_or_try_init).
InitialiseFail(t, s) ==
    /\ initing' = 0
    /\ SetSt(t, s)
    /\ \E e \in Errnos : SetRes(t, handle_error(s, e))
    /\ Goto(t, "init_ret")
    /\ UNCHANGED <<SPEAKER, constructed, attempts>>

\* handle_error(espeak_ng_Initialize(null))?
InitializeReturn(t) ==
    /\ pc[t] = "in_Initialize"
    /\ \E s \in NativeStatuses :
        IF s = 0
        THEN /\ coreInit' = TRUE
             /\ SetSt(t, s)
             /\ Goto(t, "in_InitializeOutput")
             /\ UNCHANGED <<cellVars, res>>
        ELSE /\ InitialiseFail(t, s)
             /\ UNCHANGED coreInit
    /\ UNCHANGED <<lock, arg, fnVars, h, opLocals, callbackSet, enginePath,
                   outInit, curVoice, traceTarget, terminated, pending,
                   cbActive, procVars>>

\* handle_error(espeak_ng_InitializeOutput(1, 0, null))?  On success the
\* Speaker value self_ is constructed and set_voice_raw(DEFAULT_VOICE) starts.
InitializeOutputReturn(t) ==
    /\ pc[t] = "in_InitializeOutput"
    /\ \E s \in NativeStatuses :
        IF s = 0
        THEN /\ outInit' = TRUE
             /\ constructed' = constructed + 1
             /\ SetSt(t, s)
             /\ Goto(t, "in_SetVoiceByName_init")
             /\ UNCHANGED <<SPEAKER, initing, attempts, res>>
        ELSE /\ InitialiseFail(t, s)
             /\ UNCHANGED outInit
    /\ UNCHANGED <<lock, arg, fnVars, h, opLocals, callbackSet, enginePath,
                   coreInit, curVoice, traceTarget, terminated, pending,
                   cbActive, procVars>>

\* A faulty InitSetVoiceReturn: the result of set_voice_raw is dropped and
\* the Speaker is published whatever the native call reported.
InitSetVoiceReturn_IgnoresFailure(t) ==
    /\ pc[t] = "in_SetVoiceByName_init"
    /\ \E s \in NativeStatuses :
        /\ curVoice' = IF s = 0 THEN CStr_from_ptr(null_term(DEFAULT_VOICE))
                       ELSE curVoice
        /\ SPEAKER' = constructed
        /\ initing' = 0
        /\ SetSt(t, s)
        /\ SetRes(t, Ok(constructed))
        /\ Goto(t, "init_ret")
        /\ UNCHANGED <<constructed, attempts, terminated, coreInit, outInit>>
    /\ UNCHANGED <<lock, arg, fnVars, h, opLocals, callbackSet, enginePath,
                   traceTarget, pending, cbActive, procVars>>

\* self_.set_voice_raw(Speaker::DEFAULT_VOICE)? in Speaker::initialise: one
\* native call, the name not being of the diphone family.  On success the
\* closure returns Ok(self_), the cell is filled and initialise returns the
\* handle.  On failure self_ is dropped (Drop calls espeak_ng_Terminate).
InitSetVoiceReturn(t) ==
    /\ pc[t] = "in_SetVoiceByName_init"
    /\ \E s \in NativeStatuses :
        IF s = 0
        THEN /\ curVoice' = CStr_from_ptr(null_term(DEFAULT_VOICE))
             /\ SPEAKER' = constructed
             /\ initing' = 0
             /\ SetSt(t, s)
             /\ SetRes(t, Ok(constructed))
             /\ Goto(t, "init_ret")
             /\ UNCHANGED <<constructed, attempts, terminated, coreInit,
                            outInit>>
        ELSE /\ InitialiseFail(t, s)
             /\ terminated' = terminated + 1
             /\ coreInit' = FALSE
             /\ outInit' = FALSE
             /\ UNCHANGED curVoice
    /\ UNCHANGED <<lock, arg, fnVars, h, opLocals, callbackSet, enginePath,
                   traceTarget, pending, cbActive, procVars>>

\* A faulty Get: an empty cell is filled on the way.
Get_Initialises(t) ==
    /\ pc[t] = "idle"
    /\ SPEAKER' = IF SPEAKER = 0 THEN constructed + 1 ELSE SPEAKER
    /\ SetRes(t, Ok(SPEAKER'))
    /\ Goto(t, "get_ret")
    /\ UNCHANGED <<initing, constructed, attempts, lock, arg, fnVars, h, st,
                   opLocals, engineVars, procVars>>

\* get(): SPEAKER.get()
Get(t) ==
    /\ pc[t] = "idle"
    /\ SetRes(t, Ok(SPEAKER))
    /\ Goto(t, "get_ret")
    /\ UNCHANGED <<cellVars, lock, arg, fnVars, h, st, opLocals, engineVars,
                   procVars>>

\* The caller takes the result of initialise or get: a handle, if one came.
Return(t) ==
    /\ pc[t] \in {"init_ret", "get_ret"}
    /\ h' = [h EXCEPT ![t] = IF res[t].k = "Ok" /\ res[t].v # 0
                              THEN res[t].v ELSE h[t]]
    /\ Goto(t, "idle")
    /\ arg' = [arg EXCEPT ![t] = ""]
    /\ SetRes(t, NoRes)
    /\ SetSt(t, 0)
    /\ UNCHANGED <<cellVars, lock, fnVars, opLocals, engineVars, procVars>>

\* -------------------------------------------------- the lock and statics

\* initialise(..)?.lock() / get().unwrap().lock(): parking_lot::Mutex::lock
LockSpeaker(t) ==
    /\ pc[t] = "idle"
    /\ h[t] # 0
    /\ lock = 0
    /\ lock' = t
    /\ Goto(t, "locked")
    /\ UNCHANGED <<cellVars, arg, fnVars, res, h, st, opLocals, engineVars,
                   procVars>>

\* The MutexGuard is dropped.
Unlock(t) ==
    /\ pc[t] = "locked"
    /\ lock' = 0
    /\ Goto(t, "idle")
    /\ UNCHANGED <<cellVars, arg, fnVars, res, h, st, opLocals, engineVars,
                   procVars>>

\* Speaker::get_voices(): an associated function without self; it calls
\* espeak_ListVoices whoever holds the lock.
GetVoicesCall(t) ==
    /\ pc[t] = "idle"
    /\ Goto(t, "in_ListVoices")
    /\ UNCHANGED <<cellVars, lock, arg, fnVars, res, h, st, opLocals,
                   engineVars, procVars>>

\* espeak_ListVoices returns and the array is drained into a Vec<Voice>.
ListVoicesReturn(t) ==
    /\ pc[t] = "in_ListVoices"
    /\ Goto(t, "idle")
    /\ UNCHANGED <<cellVars, lock, arg, fnVars, res, h, st, opLocals,
                   engineVars, procVars>>

\* Speaker::info(): an associated function without self; it calls espeak_Info.
InfoCall(t) ==
    /\ pc[t] = "idle"
    /\ Goto(t, "in_Info")
    /\ UNCHANGED <<cellVars, lock, arg, fnVars, res, h, st, opLocals,
                   engineVars, procVars>>

\* espeak_Info returns; the strings are copied out.
InfoReturn(t) ==
    /\ pc[t] = "in_Info"
    /\ Goto(t, "idle")
    /\ UNCHANGED <<cellVars, lock, arg, fnVars, res, h, st, opLocals,
                   engineVars, procVars>>

\* An operation made through the guard returns to its caller.  The caller
\* of text_to_phonemes(MbrolaFile(f)) then drops its File f.
OpReturn(t) ==
    /\ pc[t] = "op_ret"
    /\ Goto(t, "locked")
    /\ openFds' = IF op[t] = "MbrolaFile" THEN openFds \ {caller_fd[t]}
                  ELSE openFds
    /\ op' = [op EXCEPT ![t] = ""]
    /\ filename' = [filename EXCEPT ![t] = NoVoice]
    /\ res' = [res EXCEPT ![t] = NoRes]
    /\ st' = [st EXCEPT ![t] = 0]
    /\ waited' = [waited EXCEPT ![t] = FALSE]
    /\ result' = [result EXCEPT ![t] = NoRes]
    /\ caller_fd' = [caller_fd EXCEPT ![t] = 0]
    /\ raw_file_fd' = [raw_file_fd EXCEPT ![t] = 0]
    /\ dup_fd' = [dup_fd EXCEPT ![t] = 0]
    /\ sv_calls' = [sv_calls EXCEPT ![t] = 0]
    /\ voice_path_exists' = [voice_path_exists EXCEPT ![t] = "unchecked"]
    /\ text' = [text EXCEPT ![t] = <<>>]
    /\ output' = [output EXCEPT ![t] = <<>>]
    /\ udVal' = "None"
    /\ audio_buffer' = <<>>
    /\ cfile' = [state |-> "none", fd |-> 0]
    /\ delivered' = <<>>
    /\ UNCHANGED <<cellVars, lock, arg, fnVars, h, engineVars, udAlive,
                   bufAlive, aborted, cbFailed>>

\* ------------------------------------------------------- set_voice_raw()

\* set_voice_raw(filename): a diphone-family name first asks Self::info()
\* for the voice directory; any other name goes to the native call at once.
SetVoiceRawCall(t, f) ==
    /\ pc[t] = "locked"
    /\ op' = [op EXCEPT ![t] = "set_voice_raw"]
    /\ filename' = [filename EXCEPT ![t] = f]
    /\ Goto(t, IF IsMbrola(f) THEN "in_Info_sv" ELSE "in_SetVoiceByName")
    /\ UNCHANGED <<cellVars, lock, arg, fnVars, res, h, st, waited, result,
                   caller_fd, raw_file_fd, dup_fd, sv_calls, voice_path_exists,
                   phoLocals, engineVars, procVars>>

\* A faulty SetVoiceInfoReturn: the existence of the voice file is looked
\* at but the native call is made whatever it gave.
SetVoiceInfoReturn_CallsAnyway(t) ==
    /\ pc[t] = "in_Info_sv"
    /\ \E exists \in {"yes", "no"} :
        voice_path_exists' = [voice_path_exists EXCEPT ![t] = exists]
    /\ Goto(t, "in_SetVoiceByName")
    /\ UNCHANGED <<cellVars, lock, arg, fnVars, res, h, st, op, filename,
                   waited, result, caller_fd, raw_file_fd, dup_fd, sv_calls,
                   phoLocals, engineVars, procVars>>

\* espeak_Info returns; voice_path.exists() decides whether the native
\* call is made at all.
SetVoiceInfoReturn(t) ==
    /\ pc[t] = "in_Info_sv"
    /\ \E exists \in {"yes", "no"} :
        /\ voice_path_exists' = [voice_path_exists EXCEPT ![t] = exists]
        /\ IF exists = "yes"
           THEN /\ Goto(t, "in_SetVoiceByName")
                /\ UNCHANGED res
           ELSE /\ SetRes(t, Err("ESpeakNg", ENS_VOICE_NOT_FOUND))
                /\ Goto(t, "op_ret")
    /\ UNCHANGED <<cellVars, lock, arg, fnVars, h, st, op, filename, waited,
                   result, caller_fd, raw_file_fd, dup_fd, sv_calls, phoLocals,
                   engineVars, procVars>>

\* espeak_ng_SetVoiceByName returns.  For a diphone-family name the call is
\* repeated for as long as it reports VoiceNotFound.
SetVoiceByNameReturn(t) ==
    /\ pc[t] = "in_SetVoiceByName"
    /\ sv_calls' = [sv_calls EXCEPT ![t] = (sv_calls[t] + 1) % SpinWrap]
    /\ \E s \in NativeStatuses, e \in Errnos :
        /\ SetSt(t, s)
        /\ IF s = 0
           THEN /\ curVoice' = CStr_from_ptr(null_term(filename[t]))
                /\ SetRes(t, Ok(0))
                /\ Goto(t, "op_ret")
           ELSE IF IsMbrola(filename[t])
                   /\ handle_error(s, e) = Err("ESpeakNg", ENS_VOICE_NOT_FOUND)
           THEN /\ UNCHANGED <<curVoice, res, pc>>
           ELSE /\ SetRes(t, handle_error(s, e))
                /\ Goto(t, "op_ret")
                /\ UNCHANGED curVoice
    /\ UNCHANGED <<cellVars, lock, arg, fnVars, h, op, filename, waited,
                   result, caller_fd, raw_file_fd, dup_fd, voice_path_exists,
                   phoLocals, callbackSet, enginePath, coreInit, outInit,
                   traceTarget, terminated, pending, cbActive, procVars>>


\* --------------------------------------------- synthesis and its callback

\* What one callback invocation carries: 0 for a null wav pointer or a zero
\* sample_count, otherwise a chunk of samples (named by a number).
Chunks == {0, 1}

\* The sequences of callback invocations the engine makes for one synthesis.
ChunkSeqs == UNION {[1..n -> Chunks] : n \in 0..MaxChunks}

\* _synthesize reaches espeak_ng_Synthesize: the argument expression builds
\* a temporary Option<*const AudioBuffer> from user_data and passes its
\* address.  The engine queues the job unless it reports a failure.
EnterSynthesize(t, ud, s, job) ==
    /\ udVal' = ud
    /\ udAlive' = TRUE
    /\ SetSt(t, s)
    /\ pending' = IF s = 0 THEN job ELSE <<>>
    /\ waited' = [waited EXCEPT ![t] = FALSE]
    /\ Goto(t, "in_Synthesize")

\* synthesize(text): a fresh AudioBuffer, then _synthesize(text, Some(&buf)).
SynthesizeCall(t) ==
    /\ pc[t] = "locked"
    /\ op' = [op EXCEPT ![t] = "synthesize"]
    /\ audio_buffer' = <<>>
    /\ bufAlive' = TRUE
    /\ \E s \in NativeStatuses, job \in ChunkSeqs :
        EnterSynthesize(t, "Some", s, job)
    /\ UNCHANGED <<filename, cellVars, lock, arg, fnVars, res, h, result,
                   caller_fd, raw_file_fd, dup_fd, sv_calls, voice_path_exists,
                   phoLocals, callbackSet, enginePath, coreInit, outInit,
                   curVoice, traceTarget, terminated, cbActive, openFds, cfile,
                   aborted, cbFailed, delivered>>

\* What *(user_data as *const Option<&AudioBuffer>) can yield.  The value
\* stored is an Option<*const AudioBuffer>, whose layout is not that of
\* Option<&AudioBuffer>; once the temporary is dropped the read is of a dead
\* stack slot.  "Wild" is a reference to no AudioBuffer.
ReadUserData(alive, val) ==
    IF val = "None"
    THEN {"None", "Wild"}
    ELSE IF alive THEN {"Some", "Wild"} ELSE {"None", "Some", "Wild"}

\* The engine invokes synth_callback while a thread is inside
\* espeak_ng_Synthesize or espeak_ng_Synchronize.
CallbackEnter ==
    /\ \E t \in Threads : pc[t] \in {"in_Synthesize", "in_Synchronize"}
    /\ callbackSet
    /\ pending # <<>>
    /\ ~cbActive
    /\ cbActive' = TRUE
    /\ UNCHANGED <<cellVars, lock, threadVars, fnVars, callbackSet, enginePath,
                   coreInit, outInit, curVoice, traceTarget, terminated,
                   pending, procVars>>

\* What the body of synth_callback does with the value it read as user
\* data: nothing for None; for Some(buffer) the samples are appended, unless
\* Vec::extend panics (capacity overflow), which catch_unwind turns into
\* eprintln + abort; a reference to no AudioBuffer ends the process too.
CallbackOutcomes(got) ==
    CASE got = "None" -> {"returned"}
      [] got = "Some" -> {"appended", "panicked"}
      [] got = "Wild" -> {"crashed"}

\* A faulty CallbackBody: a panic is not caught, the callback's frame is
\* unwound and control is back in the engine.
CallbackBody_Unwinds ==
    /\ cbActive
    /\ cbActive' = FALSE
    /\ pending' = Tail(pending)
    /\ delivered' = IF Head(pending) = 0 THEN delivered
                    ELSE Append(delivered, Head(pending))
    /\ IF Head(pending) = 0
       THEN UNCHANGED <<audio_buffer, aborted, pc, cbFailed>>
       ELSE \E got \in ReadUserData(udAlive, udVal) :
            \E out \in CallbackOutcomes(got) :
                /\ cbFailed' = IF out \in {"panicked", "crashed"} THEN out
                               ELSE cbFailed
                /\ audio_buffer' = IF out = "appended"
                                   THEN Append(audio_buffer, Head(pending))
                                   ELSE audio_buffer
                /\ aborted' = (out = "crashed")
                /\ pc' = IF out = "crashed"
                         THEN [t \in Threads |-> "dead"] ELSE pc
    /\ UNCHANGED <<cellVars, lock, arg, fnVars, res, h, st, opLocals,
                   callbackSet, enginePath, coreInit, outInit, curVoice,
                   traceTarget, terminated, openFds, cfile, udAlive, udVal,
                   bufAlive>>

\* synth_callback runs to its end: 0 at once for absent or empty sample
\* data; otherwise the user data is read through the event and the body
\* does one of CallbackOutcomes.  Returning 0 hands control back to the
\* engine; abort ends every thread.
CallbackBody ==
    /\ cbActive
    /\ cbActive' = FALSE
    /\ pending' = Tail(pending)
    /\ delivered' = IF Head(pending) = 0 THEN delivered
                    ELSE Append(delivered, Head(pending))
    /\ IF Head(pending) = 0
       THEN UNCHANGED <<audio_buffer, aborted, pc, cbFailed>>
       ELSE \E got \in ReadUserData(udAlive, udVal) :
            \E out \in CallbackOutcomes(got) :
                /\ cbFailed' = IF out \in {"panicked", "crashed"} THEN out
                               ELSE cbFailed
                /\ audio_buffer' = IF out = "appended"
                                   THEN Append(audio_buffer, Head(pending))
                                   ELSE audio_buffer
                /\ aborted' = (out \in {"panicked", "crashed"})
                /\ pc' = IF out \in {"panicked", "crashed"}
                         THEN [t \in Threads |-> "dead"] ELSE pc
    /\ UNCHANGED <<cellVars, lock, arg, fnVars, res, h, st, opLocals,
                   callbackSet, enginePath, coreInit, outInit, curVoice,
                   traceTarget, terminated, openFds, cfile, udAlive, udVal,
                   bufAlive>>

\* _synthesize returns r to the function that called it: synthesize hands
\* the buffer's contents or the error to its caller; text_to_phonemes_mbrola
\* keeps r in `result` and resets the phoneme trace.
SynthesizeDone(t, r) ==
    IF op[t] = "synthesize"
    THEN /\ SetRes(t, IF r.k = "Ok" THEN Ok(Len(audio_buffer)) ELSE r)
         /\ bufAlive' = FALSE
         /\ Goto(t, "op_ret")
         /\ UNCHANGED result
    ELSE /\ result' = [result EXCEPT ![t] = r]
         /\ Goto(t, "in_SetPhonemeTrace_reset")
         /\ UNCHANGED <<res, bufAlive>>

\* A faulty SynthesizeReturn: espeak_ng_Synchronize is never called.
SynthesizeReturn_NoWait(t) ==
    /\ pc[t] = "in_Synthesize"
    /\ ~cbActive
    /\ udAlive' = FALSE
    /\ \E e \in Errnos : SynthesizeDone(t, handle_error(st[t], e))
    /\ UNCHANGED <<filename, cellVars, lock, op, arg, fnVars, h, st, waited,
                   caller_fd, raw_file_fd, dup_fd, sv_calls, voice_path_exists,
                   phoLocals, engineVars, openFds, cfile, udVal, audio_buffer,
                   aborted, cbFailed, delivered>>

\* espeak_ng_Synthesize returns when no callback is running (the rest of
\* the job may still be queued): the statement ends, its temporaries are
\* dropped; handle_error(..)? returns early on a failure, otherwise
\* espeak_ng_Synchronize is called.
SynthesizeReturn(t) ==
    /\ pc[t] = "in_Synthesize"
    /\ ~cbActive
    /\ udAlive' = FALSE
    /\ IF st[t] # 0
       THEN \E e \in Errnos : SynthesizeDone(t, handle_error(st[t], e))
       ELSE /\ Goto(t, "in_Synchronize")
            /\ UNCHANGED <<res, result, bufAlive>>
    /\ UNCHANGED <<filename, cellVars, lock, op, arg, fnVars, h, st, waited,
                   caller_fd, raw_file_fd, dup_fd, sv_calls, voice_path_exists,
                   phoLocals, engineVars, openFds, cfile, udVal, audio_buffer,
                   aborted, cbFailed, delivered>>

\* espeak_ng_Synchronize returns once the engine has nothing left to do.
SynchronizeReturn(t) ==
    /\ pc[t] = "in_Synchronize"
    /\ pending = <<>> /\ ~cbActive
    /\ waited' = [waited EXCEPT ![t] = TRUE]
    /\ \E s \in NativeStatuses, e \in Errnos :
        /\ SetSt(t, s)
        /\ SynthesizeDone(t, handle_error(s, e))
    /\ UNCHANGED <<filename, cellVars, lock, op, arg, fnVars, h, caller_fd,
                   raw_file_fd, dup_fd, sv_calls, voice_path_exists, phoLocals,
                   engineVars, openFds, cfile, udAlive, udVal, audio_buffer,
                   aborted, cbFailed, delivered>>


\* ------------------------------------------------------ text_to_phonemes()

\* The descriptors a process may hold besides stdin, stdout and stderr.
FdSpace == 3..(2 + MaxFds)

\* The descriptor a syscall that creates one returns: the lowest free one,
\* or -1 when the table is full.
AllocFd(open) ==
    IF FdSpace \ open = {} THEN -1
    ELSE CHOOSE fd \in FdSpace \ open : \A g \in FdSpace \ open : fd <= g

\* The texts given to text_to_phonemes: one clause or more, each named by
\* its position.
Texts == {[i \in 1..n |-> i] : n \in 1..MaxClauses}

\* The engine's espeak_TextToPhonemes(textptr, textmode, phonememode) with
\* *textptr at clause number textptr of txt: the phonemes of that one clause
\* are returned and *textptr is moved behind it, or set to NULL (0) when
\* the text is used up.
espeak_TextToPhonemes(txt, textptr) ==
    [phonemes |-> <<txt[textptr]>>,
     textptr |-> IF textptr = Len(txt) THEN 0 ELSE textptr + 1]

\* text_to_phonemes(text, option).  Standard goes to espeak_TextToPhonemes;
\* Mbrola and MbrolaFile(file) go to text_to_phonemes_mbrola, which starts
\* with get_current_voice().  The caller of MbrolaFile holds an open File.
\* The clauses of the text are followed on the standard path only: the
\* other paths hand the text to the synthesis as a whole.
TextToPhonemesCall(t, o, txt) ==
    /\ pc[t] = "locked"
    /\ text' = [text EXCEPT ![t] = IF o = "Standard" THEN txt ELSE <<>>]
    /\ o = "MbrolaFile" => AllocFd(openFds) # -1
    /\ op' = [op EXCEPT ![t] = o]
    /\ caller_fd' = [caller_fd EXCEPT ![t] =
                        IF o = "MbrolaFile" THEN AllocFd(openFds) ELSE 0]
    /\ openFds' = IF o = "MbrolaFile" THEN openFds \cup {AllocFd(openFds)}
                  ELSE openFds
    /\ Goto(t, IF o = "Standard" THEN "in_TextToPhonemes"
               ELSE "in_GetCurrentVoice")
    /\ UNCHANGED <<filename, cellVars, lock, arg, fnVars, res, h, st, waited,
                   result, raw_file_fd, dup_fd, sv_calls, voice_path_exists,
                   output, engineVars, cfile, udAlive, udVal, audio_buffer,
                   bufAlive, aborted, cbFailed, delivered>>

\* get_current_voice(): espeak_GetCurrentVoice is called.
GetCurrentVoiceCall(t) ==
    /\ pc[t] = "locked"
    /\ op' = [op EXCEPT ![t] = "get_current_voice"]
    /\ Goto(t, "in_GetCurrentVoice")
    /\ UNCHANGED <<cellVars, lock, arg, fnVars, res, h, st, filename, waited,
                   result, caller_fd, raw_file_fd, dup_fd, sv_calls,
                   voice_path_exists, phoLocals, engineVars, procVars>>

\* text_to_phonemes_standard: espeak_TextToPhonemes is called once, with a
\* pointer to a temporary that points at the start of the text; what the
\* engine left in the temporary is not looked at, and the call's output is
\* returned as Ok(Some(..)).
TextToPhonemesReturn(t) ==
    /\ pc[t] = "in_TextToPhonemes"
    /\ output' = [output EXCEPT ![t] =
                     espeak_TextToPhonemes(text[t], 1).phonemes]
    /\ SetRes(t, Ok(1))
    /\ Goto(t, "op_ret")
    /\ UNCHANGED <<cellVars, lock, arg, fnVars, h, st, op, filename, waited,
                   result, caller_fd, raw_file_fd, dup_fd, sv_calls,
                   voice_path_exists, text, engineVars, procVars>>

\* A faulty GetCurrentVoiceReturn: the descriptor is created before the
\* voice is looked at.
GetCurrentVoiceReturn_CheckAfterFd(t) ==
    /\ pc[t] = "in_GetCurrentVoice"
    /\ curVoice # NoVoice
    /\ IF op[t] = "get_current_voice"
       THEN /\ filename' = [filename EXCEPT ![t] =
                                from_cptr(Append(curVoice, NUL))]
            /\ SetRes(t, Ok(0))
            /\ Goto(t, "op_ret")
            /\ UNCHANGED <<raw_file_fd, openFds>>
       ELSE /\ raw_file_fd' = [raw_file_fd EXCEPT ![t] =
                                  IF op[t] = "MbrolaFile" THEN caller_fd[t]
                                  ELSE AllocFd(openFds)]
            /\ openFds' = IF op[t] = "MbrolaFile" THEN openFds
                          ELSE openFds \cup ({AllocFd(openFds)} \ {-1})
            /\ UNCHANGED filename
            /\ IF ~IsMbrola(from_cptr(Append(curVoice, NUL)))
               THEN /\ SetRes(t, Err("MbrolaWithoutMbrolaVoice", 0))
                    /\ Goto(t, "op_ret")
               ELSE /\ Goto(t, "in_fdopen")
                    /\ UNCHANGED res
    /\ UNCHANGED <<cellVars, lock, op, arg, fnVars, h, st, waited, result,
                   caller_fd, dup_fd, sv_calls, voice_path_exists, phoLocals,
                   engineVars, cfile, udAlive, udVal, audio_buffer, bufAlive,
                   aborted, cbFailed, delivered>>

\* espeak_GetCurrentVoice returns the engine's voice record (non-null once
\* a voice is set) and Voice::from copies it, the filename by
\* String::from_cptr(identifier).  get_current_voice returns that Voice.
\* text_to_phonemes_mbrola looks at its filename: without a diphone-family
\* voice the call fails; otherwise the descriptor is the caller's or comes
\* from memfd_create, and fdopen is called on it.
GetCurrentVoiceReturn(t) ==
    /\ pc[t] = "in_GetCurrentVoice"
    /\ curVoice # NoVoice
    /\ IF op[t] = "get_current_voice"
       THEN /\ filename' = [filename EXCEPT ![t] =
                                from_cptr(Append(curVoice, NUL))]
            /\ SetRes(t, Ok(0))
            /\ Goto(t, "op_ret")
            /\ UNCHANGED <<raw_file_fd, openFds>>
       ELSE IF ~IsMbrola(from_cptr(Append(curVoice, NUL)))
       THEN /\ SetRes(t, Err("MbrolaWithoutMbrolaVoice", 0))
            /\ Goto(t, "op_ret")
            /\ UNCHANGED <<raw_file_fd, openFds, filename>>
       ELSE /\ raw_file_fd' = [raw_file_fd EXCEPT ![t] =
                                  IF op[t] = "MbrolaFile" THEN caller_fd[t]
                                  ELSE AllocFd(openFds)]
            /\ openFds' = IF op[t] = "MbrolaFile" THEN openFds
                          ELSE openFds \cup ({AllocFd(openFds)} \ {-1})
            /\ Goto(t, "in_fdopen")
            /\ UNCHANGED <<res, filename>>
    /\ UNCHANGED <<cellVars, lock, op, arg, fnVars, h, st, waited, result,
                   caller_fd, dup_fd, sv_calls, voice_path_exists, phoLocals,
                   engineVars, cfile, udAlive, udVal, audio_buffer, bufAlive,
                   aborted, cbFailed, delivered>>

\* fdopen(raw_file_fd, "w+") returns.  A null stream is returned as
\* Error::OtherC at once; otherwise espeak_SetPhonemeTrace is called with
\* the stream.
FdopenReturn(t) ==
    /\ pc[t] = "in_fdopen"
    /\ \E okay \in (IF raw_file_fd[t] = -1 THEN {FALSE} ELSE BOOLEAN) :
        IF okay
        THEN /\ cfile' = [state |-> "open", fd |-> raw_file_fd[t]]
             /\ Goto(t, "in_SetPhonemeTrace")
             /\ UNCHANGED res
        ELSE /\ SetRes(t, Err("OtherC", IF raw_file_fd[t] = -1 THEN EBADF
                                          ELSE ENOMEM))
             /\ Goto(t, "op_ret")
             /\ UNCHANGED cfile
    /\ UNCHANGED <<cellVars, lock, arg, fnVars, h, st, opLocals, engineVars,
                   openFds, udAlive, udVal, audio_buffer, bufAlive, aborted,
                   cbFailed, delivered>>

\* espeak_SetPhonemeTrace(espeakPHONEMES_MBROLA, raw_file) returns and
\* _synthesize(text, None) starts.
SetPhonemeTraceReturn(t) ==
    /\ pc[t] = "in_SetPhonemeTrace"
    /\ traceTarget' = "file"
    /\ \E s \in NativeStatuses, job \in ChunkSeqs :
        EnterSynthesize(t, "None", s, job)
    /\ UNCHANGED <<filename, cellVars, lock, op, arg, fnVars, res, h, result,
                   caller_fd, raw_file_fd, dup_fd, sv_calls, voice_path_exists,
                   phoLocals, callbackSet, enginePath, coreInit, outInit,
                   curVoice, terminated, cbActive, openFds, cfile,
                   audio_buffer, bufAlive, aborted, cbFailed, delivered>>

\* A faulty ResetPhonemeTraceReturn: the trace is reset only after a
\* synthesis that succeeded.
ResetPhonemeTraceReturn_OnlyOnOk(t) ==
    /\ pc[t] = "in_SetPhonemeTrace_reset"
    /\ traceTarget' = IF result[t].k = "Ok" THEN "default" ELSE traceTarget
    /\ Goto(t, IF op[t] = "Mbrola" THEN "in_fseek" ELSE "in_fclose")
    /\ UNCHANGED <<cellVars, lock, arg, fnVars, res, h, st, opLocals,
                   callbackSet, enginePath, coreInit, outInit, curVoice,
                   terminated, pending, cbActive, procVars>>

\* espeak_SetPhonemeTrace(0, null) returns: the trace is back on its
\* default target.  Then fseek (no caller file) or fclose (caller file).
ResetPhonemeTraceReturn(t) ==
    /\ pc[t] = "in_SetPhonemeTrace_reset"
    /\ traceTarget' = "default"
    /\ Goto(t, IF op[t] = "Mbrola" THEN "in_fseek" ELSE "in_fclose")
    /\ UNCHANGED <<cellVars, lock, arg, fnVars, res, h, st, opLocals,
                   callbackSet, enginePath, coreInit, outInit, curVoice,
                   terminated, pending, cbActive, procVars>>

\* fseek(raw_file, 0, 0) returns; libc::dup(raw_file_fd); fclose is called.
FseekReturn(t) ==
    /\ pc[t] = "in_fseek"
    /\ dup_fd' = [dup_fd EXCEPT ![t] = AllocFd(openFds)]
    /\ openFds' = openFds \cup ({AllocFd(openFds)} \ {-1})
    /\ Goto(t, "in_fclose")
    /\ UNCHANGED <<filename, cellVars, lock, op, arg, fnVars, res, h, st,
                   waited, result, caller_fd, raw_file_fd, sv_calls,
                   voice_path_exists, phoLocals, engineVars, cfile, udAlive,
                   udVal, audio_buffer, bufAlive, aborted, cbFailed,
                   delivered>>

\* A faulty FcloseReturn: without a caller file the memory file is read and
\* returned whatever the synthesis returned.
FcloseReturn_ReadsRegardless(t) ==
    /\ pc[t] = "in_fclose"
    /\ cfile' = [cfile EXCEPT !.state = "closed"]
    /\ IF op[t] = "Mbrola"
       THEN /\ openFds' = (openFds \ {cfile.fd}) \ {dup_fd[t]}
            /\ \E got \in (IF dup_fd[t] = -1 THEN {"io"}
                             ELSE {"io", "utf8", "text"}) :
                    SetRes(t, IF got = "text" THEN Ok(1)
                              ELSE Err("Other", 0))
       ELSE /\ openFds' = openFds \ {cfile.fd}
            /\ SetRes(t, IF result[t].k = "Ok" THEN Ok(0) ELSE result[t])
    /\ Goto(t, "op_ret")
    /\ UNCHANGED <<cellVars, lock, arg, fnVars, h, st, opLocals, engineVars,
                   udAlive, udVal, audio_buffer, bufAlive, aborted, cbFailed,
                   delivered>>

\* fclose(raw_file) returns: the stream is gone, and with it the descriptor
\* it was opened on (fdopen does not duplicate it).
\* Without a caller file: File::from_raw_fd(dup_fd), result?, read_to_end,
\* String::from_utf8; the File is dropped on every way out.
\* With a caller file: result.map(|_| None).
FcloseReturn(t) ==
    /\ pc[t] = "in_fclose"
    /\ cfile' = [cfile EXCEPT !.state = "closed"]
    /\ IF op[t] = "Mbrola"
       THEN /\ openFds' = (openFds \ {cfile.fd}) \ {dup_fd[t]}
            /\ IF result[t].k = "Err"
               THEN SetRes(t, result[t])
               ELSE \E got \in (IF dup_fd[t] = -1 THEN {"io"}
                                ELSE {"io", "utf8", "text"}) :
                       SetRes(t, IF got = "text" THEN Ok(1)
                                 ELSE Err("Other", 0))
       ELSE /\ openFds' = openFds \ {cfile.fd}
            /\ SetRes(t, IF result[t].k = "Ok" THEN Ok(0) ELSE result[t])
    /\ Goto(t, "op_ret")
    /\ UNCHANGED <<cellVars, lock, arg, fnVars, h, st, opLocals, engineVars,
                   udAlive, udVal, audio_buffer, bufAlive, aborted, cbFailed,
                   delivered>>


Next ==
    \/ \E t \in Threads, p \in Paths : InitialiseCall(t, p)
    \/ \E t \in Threads : InitialiseFast(t)
    \/ \E t \in Threads : InitialiseBegin(t)
    \/ \E t \in Threads : SetSynthCallbackReturn(t)
    \/ \E t \in Threads : InitializePathReturn(t)
    \/ \E t \in Threads : InitializeReturn(t)
    \/ \E t \in Threads : InitializeOutputReturn(t)
    \/ \E t \in Threads : InitSetVoiceReturn(t)
    \/ \E t \in Threads : Get(t)
    \/ \E t \in Threads : Return(t)
    \/ \E t \in Threads : LockSpeaker(t)
    \/ \E t \in Threads : Unlock(t)
    \/ \E t \in Threads : GetVoicesCall(t)
    \/ \E t \in Threads : ListVoicesReturn(t)
    \/ \E t \in Threads : InfoCall(t)
    \/ \E t \in Threads : InfoReturn(t)
    \/ \E t \in Threads : OpReturn(t)
    \/ \E t \in Threads, f \in {DEFAULT_VOICE, MBROLA_VOICE} :
          SetVoiceRawCall(t, f)
    \/ \E t \in Threads : SetVoiceInfoReturn(t)
    \/ \E t \in Threads : SetVoiceByNameReturn(t)
    \/ \E t \in Threads : SynthesizeCall(t)
    \/ CallbackEnter
    \/ CallbackBody
    \/ \E t \in Threads : SynthesizeReturn(t)
    \/ \E t \in Threads : SynchronizeReturn(t)
    \/ \E t \in Threads, o \in {"Standard", "Mbrola", "MbrolaFile"},
          txt \in Texts : TextToPhonemesCall(t, o, txt)
    \/ \E t \in Threads : GetCurrentVoiceCall(t)
    \/ \E t \in Threads : TextToPhonemesReturn(t)
    \/ \E t \in Threads : GetCurrentVoiceReturn(t)
    \/ \E t \in Threads : FdopenReturn(t)
    \/ \E t \in Threads : SetPhonemeTraceReturn(t)
    \/ \E t \in Threads : ResetPhonemeTraceReturn(t)
    \/ \E t \in Threads : FseekReturn(t)
    \/ \E t \in Threads : FcloseReturn(t)

Spec == Init /\ [][Next]_vars

\* The same, with a thread that is inside espeak_ng_SetVoiceByName getting
\* the call's return: the engine answers and the thread is scheduled.
SpecFair == Spec /\ \A t \in Threads : WF_vars(SetVoiceByNameReturn(t))

\* ------------------------------------------- functions applied on their own

\* The statuses ESpeakNgError has a variant for.
KnownStatuses == {ESpeakNgError[n] : n \in DOMAIN ESpeakNgError}

\* The u32 values handle_error is applied to: 0, every known status, the
\* values next to each and the one with the low byte cleared, 1 and 2^31 - 1.
StatusInputs ==
    {0, 1, 2147483647} \cup KnownStatuses
        \cup {c - 1 : c \in KnownStatuses} \cup {c + 1 : c \in KnownStatuses}
        \cup {c - 255 : c \in KnownStatuses}

\* handle_error(c) is called by a thread whose errno is `errno`.
HandleErrorCall(c) ==
    /\ fn = "none"
    /\ fn' = "handle_error"
    /\ ret_code' = c
    /\ fn_res' = handle_error(c, errno)
    /\ UNCHANGED <<apiVars, errno, param_cur, param, new_value, relative,
                   reads, audio_data_i16, file, parseVars, scanVars>>

\* i32::from(bool)
i32_from(b) == IF b THEN 1 ELSE 0

\* The engine's espeak_GetParameter(parameter, current): the default value
\* for current = 0, the current value otherwise.
espeak_GetParameter(cur, parameter, current) ==
    IF current = 0 THEN param_defaults[parameter] ELSE cur[parameter]

\* The engine's parameter table after espeak_ng_SetParameter(parameter,
\* value, relative) returned 0: value is added to the current value when
\* relative is nonzero, and replaces it otherwise.
espeak_ng_SetParameter(cur, parameter, value, rel) ==
    [cur EXCEPT ![parameter] = IF rel # 0 THEN cur[parameter] + value
                               ELSE value]

\* A faulty get_parameter: the flag is passed on as it came.
get_parameter_FlagNotNegated(cur, p, default) ==
    espeak_GetParameter(cur, Parameter[p], i32_from(default))

\* get_parameter(param, default):
\* espeak_GetParameter(param as u32, i32::from(!default))
get_parameter(cur, p, default) ==
    espeak_GetParameter(cur, Parameter[p], i32_from(~default))

\* The values set_parameter is called with.
ParamValues == {-1, 0, 1, MaxParamValue}

\* set_parameter(p, v, rel) on the fresh engine:
\* handle_error(espeak_ng_SetParameter(p as u32, v, i32::from(rel))).
\* The engine changes nothing when it reports a failure.
SetParameterCall(p, v, rel, s) ==
    /\ fn = "none"
    /\ fn' = "set_parameter"
    /\ param' = p /\ new_value' = v /\ relative' = rel
    /\ fn_res' = handle_error(s, errno)
    /\ param_cur' = IF s = 0
                    THEN espeak_ng_SetParameter(param_cur, Parameter[p], v,
                                                i32_from(rel))
                    ELSE param_cur
    /\ UNCHANGED <<apiVars, errno, ret_code, reads, audio_data_i16, file,
                   parseVars, scanVars>>

\* get_parameter(param, default) after the set_parameter call; the reads
\* are made in either order.
GetParameterCall(default) ==
    /\ fn = "set_parameter"
    /\ \A i \in DOMAIN reads : reads[i].default # default
    /\ reads' = Append(reads, [default |-> default,
                               value |-> get_parameter(param_cur, param,
                                                       default)])
    /\ UNCHANGED <<apiVars, fn, errno, ret_code, fn_res, param_cur, param,
                   new_value, relative, audio_data_i16, file, parseVars,
                   scanVars>>

\* The i16 samples a synthesis yields: the ends of the range, the values
\* around 0 and around the byte boundary.
I16Samples == {-32768, -257, -256, -1, 0, 1, 255, 256, 32767}

\* The sample sequences synthesize returns.
SampleSeqs == UNION {[1..n -> I16Samples] : n \in 0..MaxSamples}

\* A faulty to_le_bytes: the high byte first.
to_le_bytes_BigEndian(x) ==
    LET u == x % 65536 IN <<u \div 256, u % 256>>

\* i16::to_le_bytes: the two's complement of x, low byte first.
to_le_bytes(x) ==
    LET u == x % 65536 IN <<u % 256, u \div 256>>

\* i16::from_le_bytes, the reading back of two bytes.
from_le_bytes(lo, hi) ==
    LET u == lo + 256 * hi IN IF u >= 32768 THEN u - 65536 ELSE u

\* audio_data_i16.into_iter().flat_map(i16::to_le_bytes).collect()
RECURSIVE flat_map_to_le_bytes(_)
flat_map_to_le_bytes(samples) ==
    IF samples = <<>> THEN <<>>
    ELSE to_le_bytes(Head(samples)) \o flat_map_to_le_bytes(Tail(samples))

\* The file read back as little-endian signed 16-bit samples; a last odd
\* byte is no sample.
RECURSIVE read_back(_)
read_back(bytes) ==
    IF Len(bytes) < 2 THEN <<>>
    ELSE <<from_le_bytes(bytes[1], bytes[2])>>
            \o read_back(SubSeq(bytes, 3, Len(bytes)))

\* synthesize_to_file(file, text) on an empty file: the error of synthesize
\* is returned before anything is written; otherwise the samples are
\* encoded and file.write_all either writes them all or fails having
\* written fewer.
SynthesizeToFileCall(r, samples) ==
    /\ fn = "none"
    /\ fn' = "synthesize_to_file"
    /\ IF r.k = "Err"
       THEN /\ fn_res' = r
            /\ UNCHANGED <<audio_data_i16, file>>
       ELSE /\ audio_data_i16' = samples
            /\ \E n \in 0..Len(flat_map_to_le_bytes(samples)) :
                /\ file' = SubSeq(flat_map_to_le_bytes(samples), 1, n)
                /\ fn_res' = IF n = Len(flat_map_to_le_bytes(samples))
                             THEN Ok(0) ELSE Err("Other", 0)
    /\ UNCHANGED <<apiVars, errno, ret_code, param_cur, param, new_value,
                   relative, reads, parseVars, scanVars>>

\* ------------------------------------------------------ parse_lang_array()

\* The priority bytes of a language entry: nonzero; 128 and above are
\* negative as a signed byte.
Priorities == {5, 200}

\* The names, as bytes: the empty name, "e", "en", the UTF-8 encoding of
\* U+00E9 (a lead byte and a continuation byte), and three that are not
\* UTF-8: the continuation byte alone, the lead byte alone, and the lead
\* byte at the end of a name.
LangNames ==
    {<<>>, <<101>>, <<101, 110>>, <<195, 169>>, <<169>>, <<195>>,
     <<101, 195>>}

\* The language lists of a voice record, as (priority, name) pairs.
LangPairSeqs ==
    UNION {[1..k -> [priority : Priorities, name : LangNames]] :
              k \in 0..MaxLangs}

\* The packed buffer espeak_VOICE.languages points to: for each language
\* its priority byte, its name and a NUL; a zero byte ends the list.
RECURSIVE pack_languages(_)
pack_languages(pairs) ==
    IF pairs = <<>> THEN <<0>>
    ELSE <<Head(pairs).priority>> \o Head(pairs).name \o <<0>>
            \o pack_languages(Tail(pairs))

\* What lies in memory behind the packed buffer: bytes of something else.
AfterBuffer == <<7, 7, 0>>

\* libc::strlen(ptr): the number of bytes before the first NUL at or after
\* position ptr of the memory.
strlen(mem, ptr) ==
    CHOOSE n \in 0..(Len(mem) - ptr) :
        /\ mem[ptr + n] = 0
        /\ \A m \in 0..(n - 1) : mem[ptr + m] # 0

\* Whether String::from_utf8 accepts the bytes: a sequence of well-formed
\* UTF-8 encodings of one to four bytes.
RECURSIVE from_utf8_ok(_)
from_utf8_ok(bytes) ==
    LET n == Len(bytes)
        b == bytes[1]
        cont(i) == i <= n /\ bytes[i] \in 128..191
        rest(k) == from_utf8_ok(SubSeq(bytes, k + 1, n))
    IN  IF n = 0 THEN TRUE
        ELSE IF b <= 127 THEN rest(1)
        ELSE IF b \in 194..223 THEN cont(2) /\ rest(2)
        ELSE IF b = 224
             THEN n >= 2 /\ bytes[2] \in 160..191 /\ cont(3) /\ rest(3)
        ELSE IF b = 237
             THEN n >= 2 /\ bytes[2] \in 128..159 /\ cont(3) /\ rest(3)
        ELSE IF b \in 225..239 THEN cont(2) /\ cont(3) /\ rest(3)
        ELSE IF b = 240
             THEN n >= 2 /\ bytes[2] \in 144..191 /\ cont(3) /\ cont(4)
                  /\ rest(4)
        ELSE IF b = 244
             THEN n >= 2 /\ bytes[2] \in 128..143 /\ cont(3) /\ cont(4)
                  /\ rest(4)
        ELSE IF b \in 241..243 THEN cont(2) /\ cont(3) /\ cont(4) /\ rest(4)
        ELSE FALSE

\* priority as i8: the byte as a two's complement signed value.
as_i8(b) == IF b >= 128 THEN b - 256 ELSE b

\* The loop of parse_lang_array from position ptr on, with the languages
\* pushed so far.  A zero byte at ptr ends it; otherwise the byte is the
\* priority, strlen measures the name behind it, ptr moves past the name's
\* NUL, and String::from_utf8(..).unwrap() makes the name or panics.
RECURSIVE parse_lang_array_loop(_, _, _)
parse_lang_array_loop(mem, ptr, vec) ==
    IF mem[ptr] = 0
    THEN [panicked |-> FALSE, vec |-> vec, last_read |-> ptr]
    ELSE LET priority == mem[ptr]
             namelen == strlen(mem, ptr + 1)
             name == SubSeq(mem, ptr + 1, ptr + namelen)
         IN  IF from_utf8_ok(name)
             THEN parse_lang_array_loop(
                      mem, ptr + 1 + namelen + 1,
                      Append(vec, [name |-> name,
                                   priority |-> as_i8(priority)]))
             ELSE [panicked |-> TRUE, vec |-> <<>>,
                   last_read |-> ptr + 1 + namelen]

\* parse_lang_array(ptr), ptr pointing at the first byte of mem.
parse_lang_array(mem) == parse_lang_array_loop(mem, 1, <<>>)

\* Voice::from(voice) for a voice record whose languages field points to
\* the packed form of pairs: parse_lang_array(voice.languages).
ParseLangArrayCall(pairs) ==
    /\ fn = "none"
    /\ fn' = "parse_lang_array"
    /\ lang_pairs' = pairs
    /\ languages' = parse_lang_array(pack_languages(pairs) \o AfterBuffer)
    /\ UNCHANGED <<apiVars, errno, ret_code, fn_res, param_cur, param,
                   new_value, relative, reads, audio_data_i16, file, scanVars>>

\* ------------------------------------------ synth_callback's event scan

\* espeak_EVENT.type_: the marker that ends an event array, and two of the
\* kinds of event the engine reports.
EventTypes == {"LIST_TERMINATED", "WORD", "END"}

\* The event arrays the engine passes with a chunk: the events that fall
\* into the chunk, none for a chunk inside a long sound, and the marker.
EventArrays ==
    {evs \o <<"LIST_TERMINATED">> :
        evs \in UNION {[1..n -> EventTypes \ {"LIST_TERMINATED"}] :
                          n \in 0..MaxEvents}}

\* What the memory behind the array may hold, read as event entries; what
\* lies behind that cannot be read.
BehindArrays == UNION {[1..n -> EventTypes] : n \in 0..MaxBehind}

\* The loop of synth_callback from entry new_ptr of the memory on: the
\* entry is read; an entry whose type is not LIST_TERMINATED ends the loop
\* and is the one user_data is taken from, any other moves new_ptr on by
\* one entry.  A read of memory that cannot be read ends the process.
RECURSIVE scan_events(_, _)
scan_events(mem, new_ptr) ==
    IF new_ptr > Len(mem)
    THEN [outcome |-> "fault", last_read |-> new_ptr]
    ELSE IF mem[new_ptr] # "LIST_TERMINATED"
         THEN [outcome |-> "break", last_read |-> new_ptr]
         ELSE scan_events(mem, new_ptr + 1)

\* synth_callback(wav, sample_count, events): nothing is read for a null
\* wav or a zero sample_count; otherwise the array is scanned from its
\* first entry.
SynthCallbackCall(w, n, evs, mem_behind) ==
    /\ fn = "none"
    /\ fn' = "synth_callback"
    /\ wav' = w /\ sample_count' = n /\ events' = evs
    /\ behind' = mem_behind
    /\ terminate_event' =
          IF w = "null" \/ n = 0
          THEN [outcome |-> "return 0", last_read |-> 0]
          ELSE scan_events(evs \o mem_behind, 1)
    /\ UNCHANGED <<apiVars, errno, ret_code, fn_res, param_cur, param,
                   new_value, relative, reads, audio_data_i16, file,
                   parseVars>>

InitFn == ApiInit /\ FnInit /\ errno \in Errnos

NextFn ==
    \/ \E c \in StatusInputs : HandleErrorCall(c)
    \/ \E p \in DOMAIN Parameter, v \in ParamValues, rel \in BOOLEAN,
          s \in NativeStatuses : SetParameterCall(p, v, rel, s)
    \/ \E default \in BOOLEAN : GetParameterCall(default)
    \/ \E s \in NativeStatuses, samples \in SampleSeqs :
          SynthesizeToFileCall(handle_error(s, errno), samples)
    \/ \E pairs \in LangPairSeqs : ParseLangArrayCall(pairs)
    \/ \E w \in {"null", "samples"}, n \in 0..1, evs \in EventArrays,
          mem_behind \in BehindArrays : SynthCallbackCall(w, n, evs, mem_behind)

SpecFn == InitFn /\ [][NextFn]_vars

\* ------------------------------------------------------------------ claims

\* The program points at which a thread is inside a native engine call made
\* by Speaker::initialise.
InitNativePcs == {"in_SetSynthCallback", "in_InitializePath", "in_Initialize",
                  "in_InitializeOutput", "in_SetVoiceByName_init"}

\* The program points at which a thread is inside a native engine call made
\* through the public API of an initialised Speaker.
ApiNativePcs == {"in_ListVoices", "in_Info", "in_Info_sv", "in_SetVoiceByName",
                 "in_Synthesize", "in_Synchronize", "in_TextToPhonemes",
                 "in_GetCurrentVoice", "in_SetPhonemeTrace",
                 "in_SetPhonemeTrace_reset"}

C2_OneSpeakerEver == constructed <= 1

\* C3: a thread inside a native engine call of the public API holds the
\* Speaker mutex, and no two threads are inside native engine code at once.
C3_NativeOnlyUnderLock ==
    /\ \A t \in Threads : pc[t] \in ApiNativePcs => lock = t
    /\ \A t, u \in Threads :
        (pc[t] \in ApiNativePcs \cup InitNativePcs
            /\ pc[u] \in ApiNativePcs \cup InitNativePcs) => t = u

\* C4: a failing step of the first-time initialisation returns the error of
\* that step's status and leaves the cell empty and free; initialise on an
\* empty cell starts the initialisation sequence instead of returning.
C4_FailedInitNotPublished ==
    [][\A t \in Threads :
        /\ (pc[t] \in InitNativePcs /\ pc'[t] = "init_ret" /\ st'[t] # 0)
            => /\ res'[t].k = "Err"
               /\ \E e \in Errnos : res'[t] = handle_error(st'[t], e)
               /\ SPEAKER' = 0 /\ initing' = 0
        /\ (pc[t] \in InitNativePcs /\ pc'[t] = "init_ret" /\ st'[t] = 0)
            => pc[t] = "in_SetVoiceByName_init"
        /\ (pc[t] = "init_enter" /\ SPEAKER = 0
                /\ pc'[t] \notin {"init_enter", "dead"})
            => /\ pc'[t] = "in_SetSynthCallback"
               /\ initing' = t]_vars

\* C4 witness: one thread got Err from initialise while another, calling
\* later, is running the initialisation sequence again.
C4_Witness ==
    \E t, u \in Threads :
        /\ pc[t] = "init_ret" /\ res[t].k = "Err"
        /\ pc[u] = "in_SetVoiceByName_init"
        /\ attempts = 2 /\ SPEAKER = 0

\* C5: get() returns what the cell holds and changes neither the cell nor
\* the engine; the cell goes from empty to filled exactly in the step in
\* which an initialise call succeeds, and in no other step.
C5_GetIsPure ==
    [][/\ \A t \in Threads :
            (pc[t] = "idle" /\ pc'[t] = "get_ret")
            => /\ res'[t] = Ok(SPEAKER)
               /\ UNCHANGED <<cellVars, engineVars>>
       /\ SPEAKER' # SPEAKER
            => /\ SPEAKER = 0
               /\ \E t \in Threads :
                    /\ pc[t] = "in_SetVoiceByName_init" /\ pc'[t] = "init_ret"
                    /\ res'[t] = Ok(SPEAKER')
       /\ \A t \in Threads :
            (pc[t] \in InitNativePcs /\ pc'[t] = "init_ret"
                /\ res'[t].k = "Ok") => SPEAKER' = res'[t].v /\ SPEAKER' # 0
      ]_vars

\* C5 witness: one thread's get() returned None, and after an initialise
\* succeeded another thread's get() returned the handle.
C5_Witness ==
    \E t, u \in Threads :
        /\ pc[t] = "get_ret" /\ res[t] = Ok(0)
        /\ pc[u] = "get_ret" /\ res[u].k = "Ok" /\ res[u].v # 0

\* C6: whenever the callback runs with sample data, the Option whose
\* address went to espeak_ng_Synthesize has not been dropped.
C6_UserDataAlive ==
    (cbActive /\ pending # <<>> /\ Head(pending) # 0) => udAlive

\* C7 as claimed: synthesize returns only after the native completion wait
\* has finished, with no callback of the synthesis left to run.
C7_ReturnsOnlyAfterWait ==
    \A t \in Threads :
        (pc[t] = "op_ret" /\ op[t] = "synthesize")
        => waited[t] /\ pending = <<>> /\ ~cbActive

\* C7 as amended: when synthesize has returned, no callback of that
\* synthesis is running or left to run; it returned after the completion
\* wait, except that a failure of the native synthesize call is returned
\* at once, without the wait.
C7_NoCallbackAfterReturn ==
    /\ \A t \in Threads :
        (pc[t] = "op_ret" /\ op[t] = "synthesize")
        => /\ pending = <<>> /\ ~cbActive
           /\ \/ waited[t]
              \/ /\ res[t].k = "Err"
                 /\ \E e \in Errnos : res[t] = handle_error(st[t], e)
    /\ (~aborted /\ (cbActive \/ pending # <<>>))
        => \E t \in Threads : pc[t] \in {"in_Synthesize", "in_Synchronize"}

\* C7 witness: synthesize returned Ok after the wait, its callbacks having
\* appended samples to the buffer.
C7_Witness ==
    \E t \in Threads :
        /\ pc[t] = "op_ret" /\ op[t] = "synthesize"
        /\ waited[t] /\ res[t].k = "Ok" /\ Len(audio_buffer) > 0

\* C8: the native trace target is never a closed stream, and whenever
\* text_to_phonemes has returned the trace is on its default target.
C8_TraceReset ==
    /\ traceTarget = "file" => cfile.state = "open"
    /\ \A t \in Threads :
        (pc[t] = "op_ret" /\ op[t] \in {"Standard", "Mbrola", "MbrolaFile"})
        => traceTarget = "default"

\* C8 witness: diphone-mode extraction returned the error of a failed
\* synthesis after the trace had been redirected and the stream closed.
C8_Witness ==
    \E t \in Threads :
        /\ pc[t] = "op_ret" /\ op[t] \in {"Mbrola", "MbrolaFile"}
        /\ result[t].k = "Err" /\ res[t].k = "Err"
        /\ cfile.state = "closed"

\* C9: when diphone-mode text_to_phonemes returns an error, the descriptor
\* it created, the stream it opened and the duplicate are all closed.
C9_NoLeakOnError ==
    \A t \in Threads :
        (pc[t] = "op_ret" /\ op[t] \in {"Mbrola", "MbrolaFile"}
            /\ res[t].k = "Err")
        => /\ cfile.state # "open"
           /\ op[t] = "Mbrola"
                => raw_file_fd[t] \notin openFds /\ dup_fd[t] \notin openFds

\* C10: when text_to_phonemes(text, MbrolaFile(f)) returns, the caller's
\* descriptor is still open.
C10_CallerKeepsDescriptor ==
    \A t \in Threads :
        (pc[t] = "op_ret" /\ op[t] = "MbrolaFile") => caller_fd[t] \in openFds

\* C11: diphone-mode text_to_phonemes called while the current voice is not
\* of the diphone family returns Error::MbrolaWithoutMbrolaVoice in a step
\* that creates no descriptor and no stream, leaves the engine (its phoneme
\* trace, its queue) as it was, and leaves a caller-supplied file open.
C11_NoMbrolaVoiceNoEffect ==
    [][\A t \in Threads :
        (pc[t] = "in_GetCurrentVoice" /\ op[t] \in {"Mbrola", "MbrolaFile"}
            /\ ~IsMbrola(curVoice)
            /\ pc'[t] \notin {"in_GetCurrentVoice", "dead"})
        => /\ pc'[t] = "op_ret"
           /\ res'[t] = Err("MbrolaWithoutMbrolaVoice", 0)
           /\ UNCHANGED <<openFds, cfile, engineVars, raw_file_fd, dup_fd,
                          caller_fd>>
           /\ op[t] = "MbrolaFile" => caller_fd[t] \in openFds']_vars

\* C11 witness: text_to_phonemes(text, MbrolaFile(f)) returned
\* MbrolaWithoutMbrolaVoice while the process's descriptor table was full
\* but for f, which is open.
C11_Witness ==
    \E t \in Threads :
        /\ pc[t] = "op_ret" /\ op[t] = "MbrolaFile"
        /\ res[t] = Err("MbrolaWithoutMbrolaVoice", 0)
        /\ caller_fd[t] \in openFds /\ cfile.state = "none"
        /\ traceTarget = "default" /\ ~IsMbrola(curVoice)

\* C12: handle_error is total over the statuses: 0 gives Ok(()); each of the
\* sixteen statuses ESpeakNgError knows gives Error::ESpeakNg of exactly the
\* variant with that value; every other nonzero status gives Error::OtherC
\* carrying the caller's errno; no nonzero status gives Ok.
C12_HandleErrorTotal ==
    fn = "handle_error" =>
        /\ Cardinality(KnownStatuses) = 16
        /\ ret_code = 0 => fn_res = Ok(0)
        /\ ret_code # 0 => fn_res.k = "Err"
        /\ \A n \in DOMAIN ESpeakNgError :
            ret_code = ESpeakNgError[n]
                => fn_res = Err("ESpeakNg", ESpeakNgError[n])
        /\ (ret_code # 0 /\ ret_code \notin KnownStatuses)
            => fn_res = Err("OtherC", errno)

\* C12 witness: the status one above VoiceNotFound, which no variant has,
\* came back as OtherC with the errno of an allocation failure.
C12_Witness ==
    /\ fn = "handle_error" /\ ret_code = ENS_VOICE_NOT_FOUND + 1
    /\ errno = ENOMEM /\ fn_res = Err("OtherC", ENOMEM)

\* C13: a failure inside synth_callback never gets back into the engine:
\* each invocation either returns 0 to the engine or ends the process; once
\* an invocation has failed no thread runs on, so no synthesize returns a
\* result and the engine is not re-entered.
C13_CallbackFailureAborts ==
    /\ cbFailed # "no" <=> aborted
    /\ aborted => /\ \A t \in Threads : pc[t] = "dead"
                  /\ ~cbActive

\* C13 witness: Vec::extend panicked inside the callback of a synthesize
\* call whose user data was read intact, and the process aborted.
C13_Witness ==
    /\ cbFailed = "panicked" /\ aborted /\ delivered # <<>>
    /\ udVal = "Some" /\ bufAlive

\* C14: when synthesize returns Ok, the samples it returns are exactly the
\* chunks the engine delivered to the callback with a non-null pointer and
\* a nonzero count during that call, in the order of delivery.
C14_ReturnsDeliveredSamples ==
    \A t \in Threads :
        (pc[t] = "op_ret" /\ op[t] = "synthesize" /\ res[t].k = "Ok")
        => /\ audio_buffer = delivered
           /\ res[t].v = Len(delivered)

\* C15: espeak_ng_Terminate is called at most once, and once it has been
\* called no thread is inside a native engine call of the initialisation or
\* of a Speaker method.
C15_TerminatedOnce ==
    /\ terminated <= 1
    /\ terminated >= 1
        => \A t \in Threads :
            pc[t] \notin InitNativePcs
                \cup (ApiNativePcs \ {"in_ListVoices", "in_Info"})

\* C16: a set_voice_raw that has reached the native set-voice call gets out
\* of it: the calls it makes come to an end and it returns to its caller,
\* whatever the native call reports.
C16_SetVoiceReturns ==
    \A t \in Threads :
        (pc[t] = "in_SetVoiceByName") ~> (pc[t] # "in_SetVoiceByName")

C18_PublishedHasDefaultVoice ==
    [][/\ (SPEAKER = 0 /\ SPEAKER' # 0)
            => /\ curVoice' = DEFAULT_VOICE
               /\ \E t \in Threads :
                    pc[t] = "in_SetVoiceByName_init" /\ st'[t] = 0
       /\ \A t \in Threads :
            (pc[t] = "in_SetVoiceByName_init" /\ pc'[t] = "init_ret"
                /\ st'[t] # 0)
            => SPEAKER' = 0 /\ res'[t].k = "Err"
       /\ (SPEAKER # 0 /\ curVoice' # curVoice)
            => \E t \in Threads : pc[t] = "in_SetVoiceByName" /\ lock = t
       /\ \A t \in Threads :
            (pc[t] = "in_GetCurrentVoice" /\ op[t] = "get_current_voice"
                /\ pc'[t] = "op_ret")
            => filename'[t] = curVoice /\ curVoice # NoVoice
      ]_vars

\* C18 witness: after a first initialise that failed and a second that
\* succeeded, get_current_voice returned a Voice whose filename is "gmw/en".
C18_Witness ==
    \E t \in Threads :
        /\ pc[t] = "op_ret" /\ op[t] = "get_current_voice"
        /\ filename[t] = DEFAULT_VOICE
        /\ attempts = 2 /\ SPEAKER # 0

\* C19: when synthesize_to_file succeeds, the bytes written are exactly two
\* per sample, each a byte, and read back as little-endian signed 16-bit
\* values they are the samples synthesize returned, negative ones included;
\* nothing comes before or after them.
C19_FileRoundTrips ==
    (fn = "synthesize_to_file" /\ fn_res.k = "Ok")
    => /\ Len(file) = 2 * Len(audio_data_i16)
       /\ \A i \in DOMAIN file : file[i] \in 0..255
       /\ read_back(file) = audio_data_i16

\* C19 witness: the samples -32768 and 255 were written as the four bytes
\* 00 80 FF 00.
C19_Witness ==
    /\ fn = "synthesize_to_file" /\ fn_res.k = "Ok"
    /\ audio_data_i16 = <<-32768, 255>>
    /\ file = <<0, 128, 255, 0>>

\* C20: when text_to_phonemes returns, Ok(None) comes only from
\* MbrolaFile: Standard returns Ok(Some(..)), a successful Mbrola returns
\* Ok(Some(..)), a successful MbrolaFile returns Ok(None); the error of the
\* synthesis is what Mbrola and MbrolaFile return, after the stream was
\* closed and the trace reset, and never Ok.
C20_NoneOnlyForMbrolaFile ==
    \A t \in Threads :
        pc[t] = "op_ret" =>
            /\ op[t] = "Standard" => res[t] = Ok(1)
            /\ (op[t] = "Mbrola" /\ res[t].k = "Ok") => res[t].v = 1
            /\ (op[t] = "MbrolaFile" /\ res[t].k = "Ok") => res[t].v = 0
            /\ (op[t] \in {"Mbrola", "MbrolaFile"} /\ res[t].k = "Ok")
                => result[t].k = "Ok"
            /\ (op[t] \in {"Mbrola", "MbrolaFile"} /\ result[t].k = "Err")
                => /\ res[t] = result[t]
                   /\ cfile.state = "closed" /\ traceTarget = "default"

\* C20 witness: text_to_phonemes(text, Mbrola) had its memory file and the
\* duplicate, the synthesis failed, and the call returned that error with
\* both descriptors closed.
C20_Witness ==
    \E t \in Threads :
        /\ pc[t] = "op_ret" /\ op[t] = "Mbrola"
        /\ result[t].k = "Err" /\ res[t] = result[t]
        /\ raw_file_fd[t] # -1 /\ dup_fd[t] # -1
        /\ raw_file_fd[t] \notin openFds /\ dup_fd[t] \notin openFds

\* C21: set_voice_raw with a name starting with "mb/" whose voice file does
\* not exist returns Err(ESpeakNg(VoiceNotFound)) without having made a
\* native set-voice call and with the engine's current voice as it was; with
\* a name not starting with "mb/" the first native set-voice call is the
\* only one: when it returns, set_voice_raw returns what handle_error made
\* of its status (VoiceNotFound included), and a failed call leaves the
\* current voice as it was.
C21_VoiceCheckedBeforeNative ==
    [][\A t \in Threads :
        /\ (pc[t] = "in_Info_sv" /\ voice_path_exists'[t] = "no")
            => /\ IsMbrola(filename[t])
               /\ pc'[t] = "op_ret"
               /\ res'[t] = Err("ESpeakNg", ENS_VOICE_NOT_FOUND)
               /\ sv_calls[t] = 0 /\ sv_calls'[t] = 0
               /\ curVoice' = curVoice
        /\ (pc[t] = "in_SetVoiceByName" /\ ~IsMbrola(filename[t])
              /\ sv_calls'[t] # sv_calls[t])
            => /\ voice_path_exists[t] = "unchecked"
               /\ sv_calls[t] = 0
               /\ pc'[t] = "op_ret"
               /\ \E e \in Errnos : res'[t] = handle_error(st'[t], e)
               /\ st'[t] # 0 => curVoice' = curVoice]_vars

\* set_voice_raw("mb/mb-en1") is about to return VoiceNotFound because the
\* voice file is missing; the engine still has the default voice.
C21_Witness ==
    \E t \in Threads :
        /\ pc[t] = "op_ret" /\ op[t] = "set_voice_raw"
        /\ filename[t] = MBROLA_VOICE
        /\ voice_path_exists[t] = "no"
        /\ res[t] = Err("ESpeakNg", ENS_VOICE_NOT_FOUND)
        /\ sv_calls[t] = 0
        /\ curVoice = DEFAULT_VOICE

\* C22: for every packed buffer of k >= 0 (nonzero priority byte,
\* NUL-terminated name) pairs followed by a zero byte, parse_lang_array
\* returns exactly k Language values in buffer order, each with its name
\* bytes and its priority byte as a signed 8-bit value, and reads no byte
\* behind the terminating zero; it returns the empty sequence when the first
\* byte is zero.
C22_ParsesEveryPackedList ==
    fn = "parse_lang_array"
    => /\ ~languages.panicked
       /\ Len(languages.vec) = Len(lang_pairs)
       /\ \A i \in DOMAIN lang_pairs :
            /\ languages.vec[i].name = lang_pairs[i].name
            /\ languages.vec[i].priority \in -128..127
            /\ (languages.vec[i].priority - lang_pairs[i].priority) % 256 = 0
       /\ languages.last_read = Len(pack_languages(lang_pairs))

\* C23: in every invocation of synth_callback with non-null sample data and
\* a nonzero sample count, for every event array the engine passes (one
\* whose only entry is the LIST_TERMINATED marker included), the scan ends
\* at an entry of the array: it reads no entry behind the array's marker.
C23_ScanStaysInArray ==
    (fn = "synth_callback" /\ wav # "null" /\ sample_count # 0)
    => /\ terminate_event.outcome = "break"
       /\ terminate_event.last_read \in 1..Len(events)

\* C24: text_to_phonemes in standard mode returns the phonemes of every
\* clause of the text it was given, not of the first clause only, and its
\* native call leaves the phoneme trace, the current voice and the
\* engine's queue of samples as they were.
C24_StandardCoversWholeText ==
    [][\A t \in Threads :
        (op[t] = "Standard" /\ pc[t] = "in_TextToPhonemes"
           /\ pc'[t] = "op_ret")
        => /\ output'[t] = text[t]
           /\ traceTarget' = traceTarget
           /\ curVoice' = curVoice
           /\ pending' = pending]_vars
====
